---- MODULE Spec2Model ----
(***************************************************************************)
(* Two-phase delivery completion of the transporter backend.               *)
(*                                                                         *)
(* The relational store is modelled as committed tables (requests,         *)
(* deliveries, ratings, drivers) plus row locks.  Every service method     *)
(* that opens a sequelize transaction runs as a sequence of steps of one   *)
(* worker; its writes are collected in the worker's transaction context    *)
(* and reach the committed tables at commit (READ COMMITTED: nobody else   *)
(* sees them earlier), or are discarded at rollback.  Reads without        *)
(* `lock: true` read the committed tables and take no lock; reads with     *)
(* `lock: true` (SELECT ... FOR UPDATE) and writes need the row lock.      *)
(* All four models are paranoid: destroy() sets deleted_at, and finders    *)
(* skip rows whose deleted_at is set.                                      *)
(***************************************************************************)
EXTENDS Integers, Sequences, FiniteSets, TLC

\* ------------------------------------------------------------------ bounds
\* workers = HTTP requests in flight at the same time
Procs == {1, 2}
\* rows the deliveries table may hold (live or soft-deleted)
MaxDeliveries == 2
\* rows the driver_ratings table may hold
MaxRatings == 2
\* room for the rating rows of a log, a re-log and an edit of one request
RelogRatings == MaxRatings + 1
\* rows the drivers table may hold; driver 1 exists from the start
MaxDrivers == 2
\* driver assignments in one logDelivery body
MaxAssign == 1
\* invoice amounts a client may submit
Invoices == {100, 200}
\* overall scores a client may submit (validated to 1..5)
Scores == {4}

NoProc == 0
\* an assignment with driver_id = NewDriver carries no identifier: the
\* driver is created inline
NewDriver == 0
DriverIds == 1..MaxDrivers

\* ------------------------------------------------- messages and controllers
\* Error messages are sequences of words; String.includes is containment
\* of a contiguous run of words.
Includes(msg, pat) ==
    \E i \in 0..(Len(msg) - Len(pat)) :
        \A j \in 1..Len(pat) : msg[i + j] = pat[j]

MsgRequestNotFound == <<"Request", "not", "found">>
MsgOnlyPlannedOrProcessing ==
    <<"Only", "planned", "or", "processing", "requests", "can", "have",
      "delivery", "logged">>
MsgDeliveryExists ==
    <<"Delivery", "already", "exists", "for", "this", "request">>
MsgDriverNotFound == <<"Driver", "with", "ID", "n", "not", "found">>
MsgOnlyProcessing ==
    <<"Only", "processing", "requests", "can", "be", "confirmed", "as",
      "completed">>
MsgCannotUpdateCompleted == <<"Cannot", "update", "completed", "requests">>
MsgCannotDeleteCompleted == <<"Cannot", "delete", "completed", "requests">>
MsgLockWaitTimeout ==
    <<"Lock", "wait", "timeout", "exceeded;", "try", "restarting", "transaction">>
MsgDeliveryNotFound ==
    <<"Delivery", "not", "found", "for", "this", "request">>

LogPrefix == <<"Failed", "to", "log", "delivery:">>
ConfirmPrefix == <<"Failed", "to", "confirm", "delivery", "completion:">>
UpdateRequestPrefix == <<"Failed", "to", "update", "request:">>
DeleteRequestPrefix == <<"Failed", "to", "delete", "request:">>
UpdateDeliveryPrefix == <<"Failed", "to", "update", "delivery:">>

\* DeliveryController.logDeliveryWithDrivers, catch block
DeliveryControllerLogStatus(msg) ==
    IF Includes(msg, <<"not", "found">>) THEN 404
    ELSE IF Includes(msg, <<"Only", "planned", "or", "processing", "requests">>)
    THEN 400
    ELSE IF Includes(msg, <<"already", "exists">>) THEN 400
    ELSE 500

\* RequestController.logDeliveryCompletion, catch block
RequestControllerLogStatus(msg) ==
    IF Includes(msg, <<"not", "found">>) THEN 404
    ELSE IF Includes(msg, <<"Only", "planned", "requests">>) THEN 400
    ELSE IF Includes(msg, <<"already", "logged">>) THEN 400
    ELSE 500

\* the two controllers that hand a delivery body to logDeliveryWithDrivers
Apis == {"deliveries", "requests"}
LogStatus(api, msg) ==
    IF api = "deliveries" THEN DeliveryControllerLogStatus(msg)
    ELSE RequestControllerLogStatus(msg)

\* variant: the catch block without its invalid-state branch
ConfirmStatusWithoutStateBranch(msg) ==
    IF Includes(msg, <<"not", "found">>) THEN 404 ELSE 500

\* the message field of the body each catch block sends
DeliveryControllerLogMessage(msg) ==
    IF Includes(msg, <<"not", "found">>) THEN "Request not found"
    ELSE IF Includes(msg, <<"Only", "planned", "or", "processing", "requests">>)
    THEN "Only planned or processing requests can have delivery logged"
    ELSE IF Includes(msg, <<"already", "exists">>)
    THEN "Delivery already exists for this request"
    ELSE "Failed to log delivery completion"
RequestControllerLogMessage(msg) ==
    IF Includes(msg, <<"not", "found">>) THEN "Request not found"
    ELSE IF Includes(msg, <<"Only", "planned", "requests">>)
    THEN "Only planned requests can have delivery completion logged"
    ELSE IF Includes(msg, <<"already", "logged">>)
    THEN "Delivery completion already logged for this request"
    ELSE "Failed to log delivery completion"
LogMessage(api, msg) ==
    IF api = "deliveries" THEN DeliveryControllerLogMessage(msg)
    ELSE RequestControllerLogMessage(msg)
\* the classification the catch block gives a failure: status and message
LogClassification(api, msg) ==
    [http |-> LogStatus(api, msg), message |-> LogMessage(api, msg)]
\* what the caller of a failed logDelivery receives: the status, the message
\* and, in the 500 branch only, error: error.message
LogFailureBody(api, msg) ==
    [http |-> LogStatus(api, msg),
     message |-> LogMessage(api, msg),
     error |-> IF LogStatus(api, msg) = 500 THEN msg ELSE <<>>]

\* confirmDeliveryCompletion of either controller, catch block
ConfirmStatus(msg) ==
    IF Includes(msg, <<"not", "found">>) THEN 404
    ELSE IF Includes(msg, <<"Only", "processing", "requests">>) THEN 400
    ELSE 500

\* RequestController.updateRequest, catch block
UpdateRequestStatus(msg) ==
    IF Includes(msg, <<"not", "found">>) THEN 404
    ELSE IF Includes(msg, <<"Cannot", "update", "completed">>) THEN 400
    ELSE 500

\* RequestController.deleteRequest, catch block
DeleteRequestStatus(msg) ==
    IF Includes(msg, <<"not", "found">>) THEN 404
    ELSE IF Includes(msg, <<"Cannot", "delete", "completed">>) THEN 400
    ELSE 500

\* ------------------------------------------------------------------- state
VARIABLES
    requests,    \* [Requests -> [status, deleted]]      transportation_requests
    deliveries,  \* set of [id, requestId, invoiceAmount, deleted]
    ratings,     \* set of [id, deliveryId, driverId, overallRating, deleted]
    drivers,     \* [ids -> [totalDeliveries, overallRating, deleted]]
    reqLock,     \* [Requests -> Procs \cup {NoProc}]     row locks
    drvLock,     \* [DriverIds -> Procs \cup {NoProc}]
    pc,          \* [Procs -> position in the running service method]
    ctx,         \* [Procs -> locals and transaction write set]
    response     \* the HTTP response sent by the last step, if it sent one

vars == <<requests, deliveries, ratings, drivers, reqLock, drvLock, pc, ctx,
          response>>
db == <<requests, deliveries, ratings, drivers>>

Statuses == {"planned", "processing", "completed", "cancelled"}
\* the rows of transportation_requests, live or soft-deleted
Requests == DOMAIN requests

\* locals of a worker that runs nothing
IdleCtx ==
    [op |-> "none", req |-> 0, driver |-> 0, retryCount |-> 0, delay |-> 0,
     invoice |-> 0,
     readStatus |-> "none",
     delivery |-> 0, destroyedDeliveries |-> {}, destroyedRatings |-> {},
     newRatings |-> {}, newDrivers |-> {}, driverUpdates |-> <<>>]

\* body records the drivers list of the updateDelivery body just answered
NoBody == [hasDrivers |-> FALSE, drivers |-> <<>>]
NoResponse ==
    [proc |-> NoProc, op |-> "none", api |-> "none", req |-> 0, ok |-> FALSE,
     http |-> 0, error |-> <<>>, body |-> NoBody]

Init ==
    /\ requests = (1 :> [status |-> "planned", deleted |-> FALSE])
    /\ deliveries = {}
    /\ ratings = {}
    /\ drivers = (1 :> [totalDeliveries |-> 0, overallRating |-> 0,
                        deleted |-> FALSE])
    /\ reqLock = (1 :> NoProc)
    /\ drvLock = [d \in DriverIds |-> NoProc]
    /\ pc = [p \in Procs |-> "idle"]
    /\ ctx = [p \in Procs |-> IdleCtx]
    /\ response = NoResponse

\* ---------------------------------------------------------------- finders
\* paranoid finders: rows whose deleted_at is set are invisible
LiveRequest(r) == ~requests[r].deleted
LiveDeliveriesOf(r) == {d \in deliveries : d.requestId = r /\ ~d.deleted}
LiveRatingsOfDelivery(id) == {x \in ratings : x.deliveryId = id /\ ~x.deleted}
LiveRatingsOfDriver(id) == {x \in ratings : x.driverId = id /\ ~x.deleted}
LiveDriver(id) == id \in DOMAIN drivers /\ ~drivers[id].deleted

\* rows inserted by transactions still in flight
PendingDeliveryIds == {ctx[p].delivery : p \in Procs} \ {0}
PendingRatingIds == UNION {{x.id : x \in ctx[p].newRatings} : p \in Procs}
PendingDriverIds == UNION {ctx[p].newDrivers : p \in Procs}

\* auto-increment keys: the next key no row, committed or in flight, has
NextDeliveryId ==
    CHOOSE n \in 1..(MaxDeliveries + 1) :
        /\ n \notin {d.id : d \in deliveries} \cup PendingDeliveryIds
        /\ \A m \in 1..(n - 1) :
              m \in {d.id : d \in deliveries} \cup PendingDeliveryIds
NextRatingId ==
    CHOOSE n \in 1..(RelogRatings + 1) :
        /\ n \notin {x.id : x \in ratings} \cup PendingRatingIds
        /\ \A m \in 1..(n - 1) :
              m \in {x.id : x \in ratings} \cup PendingRatingIds
NextDriverId ==
    CHOOSE n \in 1..(MaxDrivers + 1) :
        /\ n \notin (DOMAIN drivers) \cup PendingDriverIds
        /\ \A m \in 1..(n - 1) : m \in (DOMAIN drivers) \cup PendingDriverIds

\* ----------------------------------------------------------- transactions
\* variant: ending a transaction frees the rows whoever holds them
ReleaseEveryLock(p) ==
    /\ reqLock' = [r \in Requests |-> NoProc]
    /\ drvLock' = [d \in DriverIds |-> NoProc]
ReleaseLocks(p) ==
    /\ reqLock' = [r \in Requests |-> IF reqLock[r] = p THEN NoProc ELSE reqLock[r]]
    /\ drvLock' = [d \in DriverIds |-> IF drvLock[d] = p THEN NoProc ELSE drvLock[d]]

\* the operation of worker p ends: its HTTP response is recorded
FinishWith(p, api, ok, http, error, body) ==
    /\ pc' = [pc EXCEPT ![p] = "idle"]
    /\ ctx' = [ctx EXCEPT ![p] = IdleCtx]
    /\ response' = [proc |-> p, op |-> ctx[p].op, api |-> api,
                    req |-> ctx[p].req, ok |-> ok, http |-> http,
                    error |-> error, body |-> body]
Finish(p, api, ok, http, error) == FinishWith(p, api, ok, http, error, NoBody)

\* transaction.rollback(): the write set is dropped, the locks are released
Rollback(p) ==
    /\ UNCHANGED db
    /\ ReleaseLocks(p)

\* ------------------------------------------------------------ logDelivery
\* l.98: the status guard of logDeliveryWithDrivers
LogStatusAllowed(s) == s = "planned" \/ s = "processing"

\* variant: the request is read without lock: true
CanLockRequestWithoutLock(p, r) == TRUE

\* findByPk(..., { lock: true }): SELECT ... FOR UPDATE waits while another
\* transaction holds the row
CanLockRequest(p, r) == reqLock[r] = NoProc \/ reqLock[r] = p
CanLockDriver(p, d) == drvLock[d] = NoProc \/ drvLock[d] = p

\* one entry of deliveryData.drivers: a driver reference and the scores
Assignments == [driver_id : {NewDriver} \cup DriverIds, overall : Scores]

\* transactions that have not committed yet and the rows they may still insert
InFlightLogs == {q \in Procs : pc[q] \in {"ld_lock", "ld_delivery", "ld_driver"}}
TotalOver(f) ==
    LET RECURSIVE Sum(_)
        Sum(P) == IF P = {} THEN 0
                  ELSE LET q == CHOOSE x \in P : TRUE IN f[q] + Sum(P \ {q})
    IN Sum(DOMAIN f)
ReservedRatings ==
    TotalOver([q \in InFlightLogs |->
                  IF ctx[q].newRatings = {} THEN 1
                  ELSE Cardinality(ctx[q].newRatings)])
RatingRoomWithin(cap) == Cardinality(ratings) + ReservedRatings < cap
RatingRoom == RatingRoomWithin(MaxRatings)
DriverRoom == Cardinality((DOMAIN drivers) \cup PendingDriverIds) < MaxDrivers

\* variant: Delivery.create issued outside the transaction, so the row
\* survives the rollback
FailLogKeepingDelivery(p, msg) ==
    /\ deliveries' =
          IF ctx[p].delivery = 0 THEN deliveries
          ELSE deliveries \cup
                 {[id |-> ctx[p].delivery, requestId |-> ctx[p].req,
                   invoiceAmount |-> ctx[p].invoice, deleted |-> FALSE]}
    /\ UNCHANGED <<requests, ratings, drivers>>
    /\ ReleaseLocks(p)
    /\ \E api \in Apis :
          Finish(p, api, FALSE, LogStatus(api, LogPrefix \o msg), LogPrefix \o msg)

\* the catch block of logDeliveryWithDrivers for an error that is not a lock
\* timeout: rollback, then rethrow with the "Failed to log delivery" prefix
FailLog(p, msg) ==
    /\ Rollback(p)
    /\ \E api \in Apis :
          Finish(p, api, FALSE, LogStatus(api, LogPrefix \o msg), LogPrefix \o msg)

\* l.79: maxRetries
MaxRetries == 3

\* l.233: the errors the retry loop recognises
IsLockError(msg) ==
    Includes(msg, <<"Lock", "wait", "timeout">>) \/ Includes(msg, <<"Deadlock">>)

\* controller l.732-734: DeliveryHelper.calculateRetryDelay, milliseconds
CalculateRetryDelay(retryCount) == (2 ^ retryCount) * 1000

\* variant: the attempt is counted after the budget test instead of before
LockErrorInLogCountingLate(p, msg) ==
    IF IsLockError(msg) /\ ctx[p].retryCount < MaxRetries
    THEN /\ Rollback(p)
         /\ pc' = [pc EXCEPT ![p] = "ld_lock"]
         /\ ctx' = [ctx EXCEPT ![p] =
               [IdleCtx EXCEPT !.op = "logDelivery", !.req = ctx[p].req,
                               !.retryCount = ctx[p].retryCount + 1,
                               !.delay =
                                  CalculateRetryDelay(ctx[p].retryCount + 1)]]
         /\ response' = NoResponse
    ELSE FailLog(p, msg)

\* l.226-245: the catch block for an error raised by a statement that waited
\* for a row lock: rollback, count the attempt, wait calculateRetryDelay and
\* start over, or rethrow
LockErrorInLog(p, msg) ==
    IF IsLockError(msg) /\ ctx[p].retryCount + 1 < MaxRetries
    THEN /\ Rollback(p)
         /\ pc' = [pc EXCEPT ![p] = "ld_lock"]
         /\ ctx' = [ctx EXCEPT ![p] =
               [IdleCtx EXCEPT !.op = "logDelivery", !.req = ctx[p].req,
                               !.retryCount = ctx[p].retryCount + 1,
                               !.delay =
                                  CalculateRetryDelay(ctx[p].retryCount + 1)]]
         /\ response' = NoResponse
    ELSE FailLog(p, msg)

\* a statement of worker p waits for a row lock another transaction holds
\* until the store gives up (innodb_lock_wait_timeout)
RequestLockedByOther(p, r) == reqLock[r] # NoProc /\ reqLock[r] # p
DriverLockedByOther(p, d) == drvLock[d] # NoProc /\ drvLock[d] # p

\* a client posts a delivery body for request r; the fields of the body are
\* drawn where the code reads them, the controller that took the request
\* where it maps the outcome to a response
LD_BeginWithin(p, r, cap) ==
    /\ pc[p] = "idle"
    /\ Cardinality(deliveries) + Cardinality(InFlightLogs) < MaxDeliveries
    /\ RatingRoomWithin(cap)
    /\ pc' = [pc EXCEPT ![p] = "ld_lock"]
    /\ ctx' = [ctx EXCEPT ![p] =
          [IdleCtx EXCEPT !.op = "logDelivery", !.req = r]]
    /\ response' = NoResponse
    /\ UNCHANGED <<db, reqLock, drvLock>>

LD_Begin(p, r) == LD_BeginWithin(p, r, MaxRatings)

\* l.90-100: locked read of the request, not-found and status guards
LD_Lock(p) ==
    LET r == ctx[p].req IN
    /\ pc[p] = "ld_lock"
    /\ CanLockRequest(p, r)
    /\ IF ~LiveRequest(r) THEN FailLog(p, MsgRequestNotFound)
       ELSE IF ~LogStatusAllowed(requests[r].status)
       THEN FailLog(p, MsgOnlyPlannedOrProcessing)
       ELSE /\ reqLock' = [reqLock EXCEPT ![r] = p]
            /\ pc' = [pc EXCEPT ![p] = "ld_delivery"]
            /\ ctx' = [ctx EXCEPT ![p].readStatus = requests[r].status]
            /\ response' = NoResponse
            /\ UNCHANGED <<db, drvLock>>

\* l.90-93 while another transaction holds the request row
LD_LockTimeout(p) ==
    /\ pc[p] = "ld_lock"
    /\ RequestLockedByOther(p, ctx[p].req)
    /\ LockErrorInLog(p, MsgLockWaitTimeout)

\* l.108-116: delivery.destroy and DriverRating.destroy({ where: deliveryId })
\* of the re-log branch, inside the transaction
RelogDestroyed(d) ==
    [deliveries |-> {d.id},
     ratings |-> {x.id : x \in LiveRatingsOfDelivery(d.id)}]
NothingDestroyed == [deliveries |-> {}, ratings |-> {}]

\* l.121-129: Delivery.create inside the transaction
CreateDelivery(p, inv, destroyed) ==
    /\ pc' = [pc EXCEPT ![p] = "ld_driver"]
    /\ ctx' = [ctx EXCEPT ![p].delivery = NextDeliveryId,
                          ![p].invoice = inv,
                          ![p].destroyedDeliveries = destroyed.deliveries,
                          ![p].destroyedRatings = destroyed.ratings]
    /\ response' = NoResponse
    /\ UNCHANGED <<db, reqLock, drvLock>>

\* l.102-119: Delivery.findOne, then the re-log branch or "already exists"
LD_Delivery(p, inv) ==
    LET r == ctx[p].req IN
    /\ pc[p] = "ld_delivery"
    /\ \/ /\ LiveDeliveriesOf(r) = {}
          /\ CreateDelivery(p, inv, NothingDestroyed)
       \/ \E d \in LiveDeliveriesOf(r) :
             IF ctx[p].readStatus = "processing"
             THEN CreateDelivery(p, inv, RelogDestroyed(d))
             ELSE FailLog(p, MsgDeliveryExists)

\* controller l.808-814: DeliveryHelper.formatDriverUpdateData
FormatDriverUpdateData(id, totalDeliveries) ==
    [id |-> id, totalDeliveries |-> totalDeliveries + 1]

\* l.134-194: one pass of the loop over deliveryData.drivers, for entry a
LD_DriverWithin(p, a, cap) ==
    LET isNew == a.driver_id = NewDriver
        id == IF isNew THEN NextDriverId ELSE a.driver_id
        found == LiveDriver(id) \/ id \in ctx[p].newDrivers
        total == IF id \in DOMAIN drivers THEN drivers[id].totalDeliveries ELSE 0
        rating == [id |-> NextRatingId, deliveryId |-> ctx[p].delivery,
                   driverId |-> id, overallRating |-> a.overall,
                   deleted |-> FALSE]
    IN
    /\ pc[p] = "ld_driver"
    /\ Cardinality(ctx[p].newRatings) < MaxAssign
    /\ ctx[p].newRatings = {} \/ RatingRoomWithin(cap)
    /\ IF isNew THEN DriverRoom ELSE CanLockDriver(p, id)
    /\ IF ~isNew /\ ~found THEN FailLog(p, MsgDriverNotFound)
       ELSE /\ drvLock' = [drvLock EXCEPT ![id] = p]
            /\ ctx' = [ctx EXCEPT
                  ![p].newDrivers = IF isNew THEN @ \cup {id} ELSE @,
                  ![p].newRatings = @ \cup {rating},
                  ![p].driverUpdates =
                      Append(@, FormatDriverUpdateData(id, total))]
            /\ response' = NoResponse
            /\ UNCHANGED <<db, reqLock, pc>>
LD_Driver(p, a) == LD_DriverWithin(p, a, MaxRatings)

\* variant: a destroy that marks no row
SoftDeleteNothing(rows, ids) == rows

\* the write set of worker p applied to the committed tables
SoftDelete(rows, ids) ==
    {IF x.id \in ids THEN [x EXCEPT !.deleted = TRUE] ELSE x : x \in rows}
NewDriverRow == [totalDeliveries |-> 0, overallRating |-> 0, deleted |-> FALSE]
\* variant: DriverRating.create issued on a transaction that is never committed
ApplyDeliveryWritesWithoutRatings(p) ==
    /\ deliveries' =
          SoftDelete(deliveries, ctx[p].destroyedDeliveries)
          \cup {[id |-> ctx[p].delivery, requestId |-> ctx[p].req,
                 invoiceAmount |-> ctx[p].invoice, deleted |-> FALSE]}
    /\ ratings' = SoftDelete(ratings, ctx[p].destroyedRatings)
    /\ drivers' = [d \in (DOMAIN drivers) \cup ctx[p].newDrivers |->
                      IF d \in DOMAIN drivers THEN drivers[d] ELSE NewDriverRow]
ApplyDeliveryWrites(p) ==
    /\ deliveries' =
          SoftDelete(deliveries, ctx[p].destroyedDeliveries)
          \cup {[id |-> ctx[p].delivery, requestId |-> ctx[p].req,
                 invoiceAmount |-> ctx[p].invoice, deleted |-> FALSE]}
    /\ ratings' = SoftDelete(ratings, ctx[p].destroyedRatings)
                     \cup ctx[p].newRatings
    /\ drivers' = [d \in (DOMAIN drivers) \cup ctx[p].newDrivers |->
                      IF d \in DOMAIN drivers THEN drivers[d] ELSE NewDriverRow]

\* l.196-200: request.update({ status: 'processing' }) and transaction.commit()
LD_Commit(p) ==
    /\ pc[p] = "ld_driver"
    /\ ctx[p].newRatings # {}
    /\ requests' = [requests EXCEPT ![ctx[p].req].status = "processing"]
    /\ ApplyDeliveryWrites(p)
    /\ ReleaseLocks(p)
    /\ pc' = [pc EXCEPT ![p] = "ld_stats"]
    /\ ctx' = [ctx EXCEPT ![p] =
          [IdleCtx EXCEPT !.op = "logDelivery", !.req = ctx[p].req,
                          !.driverUpdates = ctx[p].driverUpdates]]
    /\ response' = NoResponse

\* DriverService.calculateDriverOverallRating: AVG(overallRating) over the
\* driver's live ratings, Math.round(avg * 10) / 10, kept in tenths
SumOverall(S) ==
    LET RECURSIVE Sum(_)
        Sum(T) == IF T = {} THEN 0
                  ELSE LET x == CHOOSE y \in T : TRUE
                       IN x.overallRating + Sum(T \ {x})
    IN Sum(S)
CalculateDriverOverallRating(id) ==
    LET S == LiveRatingsOfDriver(id)
        n == Cardinality(S)
    IN IF n = 0 THEN 0 ELSE (20 * SumOverall(S) + n) \div (2 * n)

\* l.221-224: the success response
LogSucceeds(p) == \E api \in Apis : Finish(p, api, TRUE, 201, <<>>)

\* variant: the refresh without its own try/catch, the error reaching the
\* outer catch block
StatsFailurePropagates(p) ==
    /\ UNCHANGED <<db, reqLock, drvLock>>
    /\ \E api \in Apis :
          Finish(p, api, FALSE, LogStatus(api, LogPrefix \o MsgDriverNotFound),
                 LogPrefix \o MsgDriverNotFound)

\* l.215-218: the catch around one driver's statistics refresh
StatsFailureSwallowed(p) ==
    /\ UNCHANGED <<db, reqLock, drvLock>>
    /\ IF Len(ctx[p].driverUpdates) = 1 THEN LogSucceeds(p)
       ELSE /\ ctx' = [ctx EXCEPT ![p].driverUpdates = Tail(@)]
            /\ response' = NoResponse
            /\ UNCHANGED pc

\* l.205-219: one pass of the post-commit statistics loop
LD_Stats(p) ==
    LET u == Head(ctx[p].driverUpdates) IN
    /\ pc[p] = "ld_stats"
    /\ \/ /\ drvLock[u.id] = NoProc
          /\ \E calcOk \in BOOLEAN :
                drivers' =
                  IF LiveDriver(u.id)
                  THEN [drivers EXCEPT ![u.id] =
                          [@ EXCEPT !.totalDeliveries = u.totalDeliveries,
                                    !.overallRating =
                                       IF calcOk
                                       THEN CalculateDriverOverallRating(u.id)
                                       ELSE 0]]
                  ELSE drivers
          /\ UNCHANGED <<requests, deliveries, ratings, reqLock, drvLock>>
          /\ IF Len(ctx[p].driverUpdates) = 1 THEN LogSucceeds(p)
             ELSE /\ ctx' = [ctx EXCEPT ![p].driverUpdates = Tail(@)]
                  /\ response' = NoResponse
                  /\ UNCHANGED pc
       \/ StatsFailureSwallowed(p)

\* ------------------------------------------------------ confirmCompletion
\* variant: no status guard
ConfirmStatusUnguarded(s) == TRUE

\* variant: a guard that only refuses completed requests
ConfirmStatusNotCompleted(s) == s # "completed"

\* l.265: the status guard of confirmDeliveryCompletion
ConfirmStatusAllowed(s) == s = "processing"

\* l.276-279: rollback and rethrow
FailConfirm(p, msg) ==
    /\ Rollback(p)
    /\ Finish(p, "deliveries", FALSE, ConfirmStatus(ConfirmPrefix \o msg), ConfirmPrefix \o msg)

CC_Begin(p, r) ==
    /\ pc[p] = "idle"
    /\ pc' = [pc EXCEPT ![p] = "cc_lock"]
    /\ ctx' = [ctx EXCEPT ![p] =
          [IdleCtx EXCEPT !.op = "confirmCompletion", !.req = r]]
    /\ response' = NoResponse
    /\ UNCHANGED <<db, reqLock, drvLock>>

\* l.256-267: locked read of the request, not-found and status guards
CC_Lock(p) ==
    LET r == ctx[p].req IN
    /\ pc[p] = "cc_lock"
    /\ CanLockRequest(p, r)
    /\ IF ~LiveRequest(r) THEN FailConfirm(p, MsgRequestNotFound)
       ELSE IF ~ConfirmStatusAllowed(requests[r].status)
       THEN FailConfirm(p, MsgOnlyProcessing)
       ELSE /\ reqLock' = [reqLock EXCEPT ![r] = p]
            /\ pc' = [pc EXCEPT ![p] = "cc_commit"]
            /\ ctx' = [ctx EXCEPT ![p].readStatus = requests[r].status]
            /\ response' = NoResponse
            /\ UNCHANGED <<db, drvLock>>

\* l.256-259 while another transaction holds the request row
CC_LockTimeout(p) ==
    /\ pc[p] = "cc_lock"
    /\ RequestLockedByOther(p, ctx[p].req)
    /\ FailConfirm(p, MsgLockWaitTimeout)

\* l.270-274: request.update({ status: 'completed' }), commit, response
CC_Commit(p) ==
    /\ pc[p] = "cc_commit"
    /\ requests' = [requests EXCEPT ![ctx[p].req].status = "completed"]
    /\ UNCHANGED <<deliveries, ratings, drivers>>
    /\ ReleaseLocks(p)
    /\ Finish(p, "deliveries", TRUE, 200, <<>>)

\* ---------------------------------------------------------- updateRequest
\* request.service l.114: the guard of updateRequest
UpdateAllowed(s) == s # "completed"

\* updateRequestSchema.status: the values a client may send; "none" stands
\* for a body without a status field
UpdatableStatuses == {"none", "planned", "cancelled"}

FailUpdateRequest(p, msg) ==
    /\ Rollback(p)
    /\ Finish(p, "requests", FALSE, UpdateRequestStatus(UpdateRequestPrefix \o msg),
              UpdateRequestPrefix \o msg)

UR_Begin(p, r) ==
    /\ pc[p] = "idle"
    /\ pc' = [pc EXCEPT ![p] = "ur_read"]
    /\ ctx' = [ctx EXCEPT ![p] =
          [IdleCtx EXCEPT !.op = "updateRequest", !.req = r]]
    /\ response' = NoResponse
    /\ UNCHANGED <<db, reqLock, drvLock>>

\* request.service l.110-116: findByPk without a lock, then the guards
UR_Read(p) ==
    LET r == ctx[p].req IN
    /\ pc[p] = "ur_read"
    /\ IF ~LiveRequest(r) THEN FailUpdateRequest(p, MsgRequestNotFound)
       ELSE IF ~UpdateAllowed(requests[r].status)
       THEN FailUpdateRequest(p, MsgCannotUpdateCompleted)
       ELSE /\ pc' = [pc EXCEPT ![p] = "ur_write"]
            /\ ctx' = [ctx EXCEPT ![p].readStatus = requests[r].status]
            /\ response' = NoResponse
    /\ UNCHANGED <<db, reqLock, drvLock>>

\* request.service l.118-122: request.update(updateData) writes the fields
\* that differ from the instance read before, then commit; getRequestById
\* afterwards throws when the request has been deleted meanwhile
UR_Write(p, st) ==
    LET r == ctx[p].req IN
    /\ pc[p] = "ur_write"
    /\ reqLock[r] = NoProc
    /\ requests' = IF st # "none" /\ st # ctx[p].readStatus
                   THEN [requests EXCEPT ![r].status = st]
                   ELSE requests
    /\ UNCHANGED <<deliveries, ratings, drivers, reqLock, drvLock>>
    /\ IF LiveRequest(r) THEN Finish(p, "requests", TRUE, 200, <<>>)
       ELSE Finish(p, "requests", FALSE, 500,
                   <<"Transaction", "cannot", "be", "rolled", "back">>)

\* request.service l.118 while another transaction holds the request row
UR_WriteTimeout(p) ==
    /\ pc[p] = "ur_write"
    /\ RequestLockedByOther(p, ctx[p].req)
    /\ FailUpdateRequest(p, MsgLockWaitTimeout)

\* ---------------------------------------------------------- deleteRequest
\* variant: deleteRequest without its status guard
DeleteAlwaysAllowed(s) == TRUE

\* request.service l.140: the guard of deleteRequest
DeleteAllowed(s) == s # "completed"

FailDeleteRequest(p, msg) ==
    /\ Rollback(p)
    /\ Finish(p, "requests", FALSE, DeleteRequestStatus(DeleteRequestPrefix \o msg),
              DeleteRequestPrefix \o msg)

DR_Begin(p, r) ==
    /\ pc[p] = "idle"
    /\ pc' = [pc EXCEPT ![p] = "dr_read"]
    /\ ctx' = [ctx EXCEPT ![p] =
          [IdleCtx EXCEPT !.op = "deleteRequest", !.req = r]]
    /\ response' = NoResponse
    /\ UNCHANGED <<db, reqLock, drvLock>>

\* request.service l.136-142: findByPk without a lock, then the guards
DR_Read(p) ==
    LET r == ctx[p].req IN
    /\ pc[p] = "dr_read"
    /\ IF ~LiveRequest(r) THEN FailDeleteRequest(p, MsgRequestNotFound)
       ELSE IF ~DeleteAllowed(requests[r].status)
       THEN FailDeleteRequest(p, MsgCannotDeleteCompleted)
       ELSE /\ pc' = [pc EXCEPT ![p] = "dr_write"]
            /\ ctx' = [ctx EXCEPT ![p].readStatus = requests[r].status]
            /\ response' = NoResponse
    /\ UNCHANGED <<db, reqLock, drvLock>>

\* request.service l.144-147: request.destroy() on a paranoid model sets
\* deleted_at on the request row only, then commit
DR_Write(p) ==
    LET r == ctx[p].req IN
    /\ pc[p] = "dr_write"
    /\ reqLock[r] = NoProc
    /\ requests' = [requests EXCEPT ![r].deleted = TRUE]
    /\ UNCHANGED <<deliveries, ratings, drivers, reqLock, drvLock>>
    /\ Finish(p, "requests", TRUE, 200, <<>>)

\* request.service l.144 while another transaction holds the request row
DR_WriteTimeout(p) ==
    /\ pc[p] = "dr_write"
    /\ RequestLockedByOther(p, ctx[p].req)
    /\ FailDeleteRequest(p, MsgLockWaitTimeout)

\* --------------------------------------------------------- updateDelivery
\* one entry of updateData.drivers (updateDeliverySchema): driver_id is
\* required, ratingId = 0 stands for an entry without ratingId
NoRatingId == 0
\* (the service never reads driver_id of an entry that has a ratingId)
UpdateEntriesWith(scores) ==
    [driver_id : DriverIds, ratingId : {NoRatingId}, overall : scores]
    \cup [driver_id : {1}, ratingId : 1..MaxRatings, overall : scores]
UpdateEntries == UpdateEntriesWith(Scores)
\* the drivers lists a body may carry; a body may also carry none
UpdateListsWith(scores) ==
    UNION {[1..n -> UpdateEntriesWith(scores)] : n \in 0..MaxAssign}
UpdateLists == UpdateListsWith(Scores)
\* bodies of an edit that changes the score a delivery was logged with
EditScores == {5}
EditLists == UpdateListsWith(EditScores)
\* invoice 0 stands for a body without a delivery part
NoInvoice == 0

FailUpdateDelivery(p, http, msg) ==
    /\ Rollback(p)
    /\ Finish(p, "deliveries", FALSE, http, UpdateDeliveryPrefix \o msg)

UD_Begin(p, r) ==
    /\ pc[p] = "idle"
    /\ pc' = [pc EXCEPT ![p] = "ud_find"]
    /\ ctx' = [ctx EXCEPT ![p] =
          [IdleCtx EXCEPT !.op = "updateDelivery", !.req = r]]
    /\ response' = NoResponse
    /\ UNCHANGED <<db, reqLock, drvLock>>

\* delivery.service l.342-349: Delivery.findOne({ where: { requestId } })
UD_Find(p) ==
    LET r == ctx[p].req IN
    /\ pc[p] = "ud_find"
    /\ \/ /\ LiveDeliveriesOf(r) = {}
          /\ FailUpdateDelivery(p, 404, MsgDeliveryNotFound)
       \/ \E d \in LiveDeliveriesOf(r) :
             /\ pc' = [pc EXCEPT ![p] = "ud_apply"]
             /\ ctx' = [ctx EXCEPT ![p].delivery = d.id]
             /\ response' = NoResponse
             /\ UNCHANGED <<db, reqLock, drvLock>>

\* controller l.771-782: extractSubmittedRatingIds and findRatingsToDelete
ExtractSubmittedRatingIds(list) ==
    {list[k].ratingId : k \in DOMAIN list} \ {NoRatingId}
\* variant: no rating is found to delete
FindRatingsToDeleteNone(existing, submitted) == {}
FindRatingsToDelete(existing, submitted) ==
    {x \in existing : x.id \notin submitted}

NextRatingIdIn(rs) ==
    CHOOSE n \in 1..(RelogRatings + 1) :
        /\ n \notin {x.id : x \in rs} \cup PendingRatingIds
        /\ \A m \in 1..(n - 1) : m \in {x.id : x \in rs} \cup PendingRatingIds

\* delivery.service l.386-422: the loop that updates the rating an entry
\* names by ratingId (DriverRating.findByPk) or creates a rating for the
\* delivery
RECURSIVE ApplyUpdateEntries(_, _, _)
ApplyUpdateEntries(rs, list, deliveryId) ==
    IF list = <<>> THEN rs
    ELSE LET e == Head(list)
             next ==
               IF e.ratingId # NoRatingId
               THEN {IF x.id = e.ratingId /\ ~x.deleted
                     THEN [x EXCEPT !.overallRating = e.overall]
                     ELSE x : x \in rs}
               ELSE rs \cup {[id |-> NextRatingIdIn(rs),
                              deliveryId |-> deliveryId,
                              driverId |-> e.driver_id,
                              overallRating |-> e.overall,
                              deleted |-> FALSE]}
         IN ApplyUpdateEntries(next, Tail(list), deliveryId)

CreatedBy(list) == {k \in DOMAIN list : list[k].ratingId = NoRatingId}

\* delivery.service l.351-431: delivery.update, the rating diff, commit
UD_ApplyWithin(p, inv, hasDrivers, list, cap) ==
    LET id == ctx[p].delivery
        existing == LiveRatingsOfDelivery(id)
        toDelete == FindRatingsToDelete(existing,
                                        ExtractSubmittedRatingIds(list))
    IN
    /\ pc[p] = "ud_apply"
    /\ inv # NoInvoice \/ hasDrivers
    /\ ~hasDrivers => list = <<>>
    /\ hasDrivers =>
          Cardinality(ratings) + ReservedRatings + Cardinality(CreatedBy(list))
             <= cap
    /\ IF /\ hasDrivers
          /\ \E k \in CreatedBy(list) : list[k].driver_id \notin DOMAIN drivers
       THEN \* the foreign key of driver_ratings.driver_id rejects the insert
            FailUpdateDelivery(p, 500,
               <<"foreign", "key", "constraint", "fails">>)
       ELSE /\ deliveries' =
                  IF inv = NoInvoice THEN deliveries
                  ELSE {IF d.id = id THEN [d EXCEPT !.invoiceAmount = inv]
                        ELSE d : d \in deliveries}
            /\ ratings' =
                  IF ~hasDrivers THEN ratings
                  ELSE ApplyUpdateEntries(
                          SoftDelete(ratings, {x.id : x \in toDelete}),
                          list, id)
            /\ UNCHANGED <<requests, drivers, reqLock, drvLock>>
            /\ FinishWith(p, "deliveries", TRUE, 200, <<>>,
                          [hasDrivers |-> hasDrivers, drivers |-> list])
UD_Apply(p, inv, hasDrivers, list) ==
    UD_ApplyWithin(p, inv, hasDrivers, list, MaxRatings)

\* ----------------------------------------------------------- deleteDriver
MsgNoSuchDriver == <<"Driver", "not", "found">>
MsgDriverHasRatings ==
    <<"Cannot", "delete", "driver", "with", "existing", "delivery", "ratings.",
      "Please", "archive", "the", "driver", "instead.">>
DeleteDriverPrefix == <<"Failed", "to", "delete", "driver:">>

\* DriverController.deleteDriver, catch block
DeleteDriverStatus(msg) ==
    IF Includes(msg, <<"not", "found">>) THEN 404
    ELSE IF Includes(msg, <<"Cannot", "delete", "driver", "with", "existing">>)
    THEN 400
    ELSE 500

\* driver.service l.54-57: rollback and rethrow
FailDeleteDriver(p, msg) ==
    /\ Rollback(p)
    /\ Finish(p, "drivers", FALSE, DeleteDriverStatus(DeleteDriverPrefix \o msg),
              DeleteDriverPrefix \o msg)

DD_Begin(p, d) ==
    /\ pc[p] = "idle"
    /\ pc' = [pc EXCEPT ![p] = "dd_read"]
    /\ ctx' = [ctx EXCEPT ![p] =
          [IdleCtx EXCEPT !.op = "deleteDriver", !.driver = d]]
    /\ response' = NoResponse
    /\ UNCHANGED <<db, reqLock, drvLock>>

\* variant: the guard counts nothing
DriverRatingCountZero(d) == 0

\* driver.service l.35-38: DriverRating.count({ where: { driverId } }), a
\* non-locking read of the committed live ratings
DriverRatingCount(d) == Cardinality(LiveRatingsOfDriver(d))

\* driver.service l.29-42: Driver.findByPk and DriverRating.count, both
\* without lock, and the two guards
DD_Read(p) ==
    LET d == ctx[p].driver IN
    /\ pc[p] = "dd_read"
    /\ IF ~LiveDriver(d) THEN FailDeleteDriver(p, MsgNoSuchDriver)
       ELSE IF DriverRatingCount(d) > 0
       THEN FailDeleteDriver(p, MsgDriverHasRatings)
       ELSE /\ pc' = [pc EXCEPT ![p] = "dd_write"]
            /\ response' = NoResponse
            /\ UNCHANGED <<db, reqLock, drvLock, ctx>>

\* driver.service l.44-52: driver.destroy (an UPDATE of the driver row, which
\* needs its row lock), commit, response
DD_Write(p) ==
    LET d == ctx[p].driver IN
    /\ pc[p] = "dd_write"
    /\ drvLock[d] = NoProc
    /\ drivers' = [drivers EXCEPT ![d].deleted = TRUE]
    /\ UNCHANGED <<requests, deliveries, ratings, reqLock, drvLock>>
    /\ Finish(p, "drivers", TRUE, 200, <<>>)

\* driver.service l.44 while a transaction holds the driver row
DD_WriteTimeout(p) ==
    /\ pc[p] = "dd_write"
    /\ DriverLockedByOther(p, ctx[p].driver)
    /\ FailDeleteDriver(p, MsgLockWaitTimeout)

\* ------------------------------------------------------------------- spec
Next ==
    \E p \in Procs :
        \/ \E r \in Requests : LD_Begin(p, r)
        \/ LD_Lock(p)
        \/ LD_LockTimeout(p)
        \/ \E inv \in Invoices : LD_Delivery(p, inv)
        \/ \E a \in Assignments : LD_Driver(p, a)
        \/ LD_Commit(p)
        \/ LD_Stats(p)
        \/ \E r \in Requests : CC_Begin(p, r)
        \/ CC_Lock(p)
        \/ CC_LockTimeout(p)
        \/ CC_Commit(p)
        \/ \E r \in Requests : UR_Begin(p, r)
        \/ UR_Read(p)
        \/ \E st \in UpdatableStatuses : UR_Write(p, st)
        \/ UR_WriteTimeout(p)
        \/ \E r \in Requests : DR_Begin(p, r)
        \/ DR_Read(p)
        \/ DR_Write(p)
        \/ DR_WriteTimeout(p)
        \/ \E r \in Requests : UD_Begin(p, r)
        \/ UD_Find(p)
        \/ \E inv \in Invoices \cup {NoInvoice}, hasDrivers \in BOOLEAN,
              list \in UpdateLists :
                UD_Apply(p, inv, hasDrivers, list)

Spec == Init /\ [][Next]_vars

\* the operations that read or write drivers and their ratings: logDelivery,
\* updateDelivery and deleteDriver
DriverNext ==
    \E p \in Procs :
        \/ \E r \in Requests : LD_Begin(p, r)
        \/ LD_Lock(p)
        \/ LD_LockTimeout(p)
        \/ \E inv \in Invoices : LD_Delivery(p, inv)
        \/ \E a \in Assignments : LD_Driver(p, a)
        \/ LD_Commit(p)
        \/ LD_Stats(p)
        \/ \E r \in Requests : UD_Begin(p, r)
        \/ UD_Find(p)
        \/ \E inv \in Invoices \cup {NoInvoice}, hasDrivers \in BOOLEAN,
              list \in EditLists :
                UD_Apply(p, inv, hasDrivers, list)
        \/ \E d \in DriverIds : DD_Begin(p, d)
        \/ DD_Read(p)
        \/ DD_Write(p)
        \/ DD_WriteTimeout(p)

DriverSpec == Init /\ [][DriverNext]_vars

\* ----------------------------------------------------------------- claims
StatusOf(r) == requests[r].status
\* worker p takes a step
Steps(p) == pc'[p] # pc[p] \/ ctx'[p] # ctx[p]
\* the live ratings of every delivery row, live or destroyed, of request r
LiveRatingsOfRequest(r) ==
    {x \in ratings : ~x.deleted /\ \E d \in deliveries :
                        d.id = x.deliveryId /\ d.requestId = r}

\* C1: once a request's status is completed, no step of any operation, in
\* any interleaving, changes it.
C1_CompletedIsTerminal ==
    [][\A r \in Requests :
          StatusOf(r) = "completed" => requests'[r].status = "completed"]_vars

\* C2: a request's status becomes completed only from a committed
\* processing status, and not while a logDelivery transaction for the
\* request is between taking the request lock and committing.
C2_CompletedOnlyFromProcessing ==
    [][\A r \in Requests :
          (requests'[r].status = "completed" /\ StatusOf(r) # "completed")
          => /\ StatusOf(r) = "processing"
             /\ ~\E q \in Procs : /\ pc[q] \in {"ld_delivery", "ld_driver"}
                                  /\ ctx[q].req = r]_vars
C2_Witness ==
    /\ response.op = "confirmCompletion"
    /\ response.ok
    /\ StatusOf(response.req) = "completed"
    /\ \E q \in Procs : pc[q] = "ld_lock" /\ ctx[q].req = response.req

\* C3: every change of a request's status is one of planned->processing,
\* processing->completed, planned->cancelled, processing->cancelled
\* (processing->processing changes nothing).
AllowedTransitions ==
    {<<"planned", "processing">>, <<"processing", "completed">>,
     <<"planned", "cancelled">>, <<"processing", "cancelled">>}
C3_OnlyListedTransitions ==
    [][\A r \in Requests :
          StatusOf(r) # requests'[r].status
          => <<StatusOf(r), requests'[r].status>> \in AllowedTransitions]_vars

\* C4: when a logDelivery commits on a request it found in processing, with
\* the prior delivery and its ratings still as it found them, the request
\* has exactly one live delivery, carrying this call's data, and the live
\* ratings of the request are exactly the ones this call created.
RelogCommits(p) ==
    /\ pc[p] = "ld_driver"
    /\ pc'[p] = "ld_stats"
    /\ ctx[p].readStatus = "processing"
    /\ {d.id : d \in LiveDeliveriesOf(ctx[p].req)} = ctx[p].destroyedDeliveries
    /\ ctx[p].destroyedDeliveries # {}
    /\ {x.id : x \in LiveRatingsOfRequest(ctx[p].req)} = ctx[p].destroyedRatings
C4_RelogReplaces ==
    [][\A p \in Procs :
          RelogCommits(p)
          => /\ LiveDeliveriesOf(ctx[p].req)' =
                   {[id |-> ctx[p].delivery, requestId |-> ctx[p].req,
                     invoiceAmount |-> ctx[p].invoice, deleted |-> FALSE]}
             /\ LiveRatingsOfRequest(ctx[p].req)' = ctx[p].newRatings
             /\ requests'[ctx[p].req].status = "processing"]_vars
C4_Witness ==
    \E d1 \in deliveries, d2 \in deliveries, x1 \in ratings, x2 \in ratings :
        /\ d1.requestId = d2.requestId
        /\ d1.deleted /\ ~d2.deleted
        /\ d1.invoiceAmount # d2.invoiceAmount
        /\ x1.deliveryId = d1.id /\ x1.deleted
        /\ x2.deliveryId = d2.id /\ ~x2.deleted
        /\ LiveRatingsOfRequest(d1.requestId) = {x2}
        /\ StatusOf(d1.requestId) = "processing"
        /\ \E p \in Procs : pc[p] = "ld_stats"

\* C5: in every reachable state each request has at most one live delivery.
C5_AtMostOneLiveDelivery ==
    \A r \in Requests : Cardinality(LiveDeliveriesOf(r)) <= 1
C5_Witness ==
    \E p \in Procs, q \in Procs :
        /\ p # q
        /\ pc[p] = "ld_lock" /\ pc[q] = "ld_driver"
        /\ ctx[p].req = ctx[q].req
        /\ reqLock[ctx[q].req] = q

\* C6: no step of a logDelivery before its commit changes the committed
\* tables, and a logDelivery that fails (or gives up an attempt) after its
\* transaction started leaves them as they are and holds no lock.
InLogTransaction(p) == pc[p] \in {"ld_lock", "ld_delivery", "ld_driver"}
C6_LogDeliveryAtomic ==
    [][\A p \in Procs :
          (InLogTransaction(p) /\ Steps(p) /\ pc'[p] # "ld_stats")
          => /\ db' = db
             /\ (pc'[p] \in {"idle", "ld_lock"}
                 => /\ \A r \in Requests : reqLock'[r] # p
                    /\ \A d \in DriverIds : drvLock'[d] # p)]_vars
C6_Witness ==
    /\ response.op = "logDelivery"
    /\ ~response.ok
    /\ Includes(response.error, MsgDriverNotFound)
    /\ StatusOf(response.req) = "processing"
    /\ \E d \in LiveDeliveriesOf(response.req) :
          LiveRatingsOfDelivery(d.id) # {}

\* C7: a confirmCompletion that reads a request in status planned or
\* completed fails with the invalid-state error (HTTP 400) and changes
\* nothing.
C7_GuardedConfirmation ==
    [][\A p \in Procs :
          (/\ pc[p] = "cc_lock"
           /\ Steps(p)
           /\ LiveRequest(ctx[p].req)
           /\ StatusOf(ctx[p].req) \in {"planned", "completed"})
          => /\ pc'[p] = "idle"
             /\ db' = db
             /\ ~response'.ok
             /\ (CanLockRequest(p, ctx[p].req)
                 => /\ response'.http = 400
                    /\ Includes(response'.error, MsgOnlyProcessing))]_vars
C7_Witness ==
    /\ response.op = "confirmCompletion"
    /\ response.http = 400
    /\ StatusOf(response.req) = "completed"

\* C8: a logDelivery that reads a request in status completed is rejected
\* with HTTP 400 and changes nothing.
C8_LogOnCompletedRejected ==
    [][\A p \in Procs :
          (/\ pc[p] = "ld_lock"
           /\ Steps(p)
           /\ CanLockRequest(p, ctx[p].req)
           /\ LiveRequest(ctx[p].req)
           /\ StatusOf(ctx[p].req) = "completed")
          => /\ pc'[p] = "idle"
             /\ db' = db
             /\ ~response'.ok
             /\ response'.http = 400]_vars

\* C9: a live delivery exists only for a request whose status is processing
\* or completed.
C9_DeliveryOnlyWhileProcessingOrCompleted ==
    \A d \in deliveries :
        ~d.deleted => StatusOf(d.requestId) \in {"processing", "completed"}

\* C10: no step of the post-commit statistics refresh changes the request,
\* the deliveries or the ratings, and the logDelivery it belongs to ends
\* with its success response, whether or not the refresh failed.
C10_StatsFailureKeepsDelivery ==
    [][\A p \in Procs :
          (pc[p] = "ld_stats" /\ Steps(p))
          => /\ <<requests, deliveries, ratings>>' =
                   <<requests, deliveries, ratings>>
             /\ pc'[p] \in {"ld_stats", "idle"}
             /\ (pc'[p] = "idle"
                 => /\ response'.proc = p
                    /\ response'.ok
                    /\ response'.http = 201)]_vars
C10_Witness ==
    /\ response.op = "logDelivery"
    /\ response.ok
    /\ StatusOf(response.req) = "processing"
    /\ \E d \in LiveDeliveriesOf(response.req) :
          \E x \in LiveRatingsOfDelivery(d.id) :
              drivers[x.driverId].totalDeliveries = 0

\* C11: logDelivery starts a new attempt only after a lock wait timeout,
\* makes at most 3 attempts, waits 2^n seconds before attempt n+1 (the wait
\* doubling from one retry to the next), and a lock wait timeout in the
\* third attempt ends the call with the lock error (HTTP 500).
LockWaitTimesOut(p) ==
    /\ pc[p] = "ld_lock"
    /\ Steps(p)
    /\ RequestLockedByOther(p, ctx[p].req)
HasDeliveryStatuses == {"processing", "completed"}
C12_ProcessingOrCompletedHasDelivery ==
    [][\A r \in Requests :
          /\ requests'[r].status \in HasDeliveryStatuses
             => LiveDeliveriesOf(r)' # {}
          /\ (StatusOf(r) \in HasDeliveryStatuses /\ LiveDeliveriesOf(r) # {})
             => LiveDeliveriesOf(r)' # {}]_vars
C12_Witness ==
    \E r \in Requests :
        /\ StatusOf(r) = "completed"
        /\ \E d \in deliveries : d.requestId = r /\ d.deleted
        /\ \E d \in deliveries : d.requestId = r /\ ~d.deleted

\* C13: when a logDelivery that found the request planned commits, the
\* request is in processing, it has exactly one live delivery (the one this
\* call created), and its live ratings are exactly one new rating per
\* submitted driver assignment, each linked to that delivery.
FirstLogCommits(p) ==
    /\ pc[p] = "ld_driver"
    /\ pc'[p] = "ld_stats"
    /\ ctx[p].readStatus = "planned"
C13_FirstLogCreatesDeliveryAndRatings ==
    [][\A p \in Procs :
          FirstLogCommits(p)
          => /\ requests'[ctx[p].req].status = "processing"
             /\ LiveDeliveriesOf(ctx[p].req)' =
                   {[id |-> ctx[p].delivery, requestId |-> ctx[p].req,
                     invoiceAmount |-> ctx[p].invoice, deleted |-> FALSE]}
             /\ LiveRatingsOfRequest(ctx[p].req)' = ctx[p].newRatings
             /\ Cardinality(ctx[p].newRatings) = Len(ctx[p].driverUpdates)
             /\ Len(ctx[p].driverUpdates) >= 1
             /\ \A x \in ctx[p].newRatings :
                   /\ x.deliveryId = ctx[p].delivery
                   /\ ~x.deleted
                   /\ x \in ratings']_vars
C13_Witness ==
    \E p \in Procs :
        /\ pc[p] = "ld_stats"
        /\ StatusOf(ctx[p].req) = "processing"
        /\ \A d \in deliveries : ~d.deleted
        /\ \E d \in LiveDeliveriesOf(ctx[p].req) :
              Cardinality(LiveRatingsOfDelivery(d.id)) = 1

\* C14: a deleteDriver that finds at least one live rating of the driver
\* fails (HTTP 400) and changes nothing; one that finds none goes on to
\* destroy the driver and, the driver row not being locked, succeeds.
C14_DeleteDriverGuard ==
    [][\A p \in Procs :
          /\ (pc[p] = "dd_read" /\ Steps(p) /\ LiveDriver(ctx[p].driver))
             => IF LiveRatingsOfDriver(ctx[p].driver) # {}
                THEN /\ pc'[p] = "idle"
                     /\ ~response'.ok
                     /\ response'.http = 400
                     /\ Includes(response'.error, MsgDriverHasRatings)
                     /\ db' = db
                ELSE /\ pc'[p] = "dd_write"
                     /\ db' = db
          /\ (/\ pc[p] = "dd_write"
              /\ Steps(p)
              /\ ~DriverLockedByOther(p, ctx[p].driver))
             => /\ response'.ok
                /\ response'.http = 200
                /\ drivers'[ctx[p].driver].deleted
                /\ <<requests, deliveries, ratings>>' =
                      <<requests, deliveries, ratings>>]_vars
C14_Witness ==
    /\ response.op = "deleteDriver"
    /\ response.http = 400
    /\ \E d \in DOMAIN drivers : LiveDriver(d) /\ LiveRatingsOfDriver(d) # {}
    /\ \E d \in DOMAIN drivers : drivers[d].deleted

\* C15: an updateRequest or deleteRequest that reads its request in status
\* completed fails (HTTP 400, "Cannot update/delete completed") and leaves
\* every table, the request row included, as it is.
ReadsCompleted(p) ==
    /\ pc[p] \in {"ur_read", "dr_read"}
    /\ Steps(p)
    /\ LiveRequest(ctx[p].req)
    /\ StatusOf(ctx[p].req) = "completed"
C15_CompletedRequestNotEdited ==
    [][\A p \in Procs :
          ReadsCompleted(p)
          => /\ pc'[p] = "idle"
             /\ db' = db
             /\ response'.proc = p
             /\ ~response'.ok
             /\ response'.http = 400
             /\ Includes(response'.error, <<"completed", "requests">>)
             /\ ~requests'[ctx[p].req].deleted
             /\ requests'[ctx[p].req].status = "completed"]_vars
C15_Witness ==
    /\ response.op = "deleteRequest"
    /\ response.http = 400
    /\ LiveRequest(response.req)
    /\ StatusOf(response.req) = "completed"

\* C16: no live delivery, and no live rating of a delivery, belongs to a
\* deleted request.
C16_DeleteRequestCascades ==
    \A d \in deliveries :
        requests[d.requestId].deleted
        => /\ d.deleted
           /\ LiveRatingsOfDelivery(d.id) = {}

\* C17: the body a caller receives for a logDelivery that failed with
\* request-not-found, wrong-status or driver-not-found differs from the body
\* the same controller sends for either of the other two.
LogFailureModes ==
    {LogPrefix \o MsgRequestNotFound, LogPrefix \o MsgOnlyPlannedOrProcessing,
     LogPrefix \o MsgDriverNotFound}
C17_FailureModesDistinct ==
    (/\ response.op = "logDelivery"
     /\ ~response.ok
     /\ response.error \in LogFailureModes)
    => \A other \in LogFailureModes \ {response.error} :
          LogFailureBody(response.api, response.error)
             # LogFailureBody(response.api, other)

\* C18: a logDelivery that gave up on lock errors is answered with HTTP 500
\* and a classification (status and message) that differs from the one an
\* error of no known kind gets.
UnclassifiedLogError == LogPrefix \o <<"connect", "ECONNREFUSED">>
C18_ContentionClassified ==
    (/\ response.op = "logDelivery"
     /\ ~response.ok
     /\ IsLockError(response.error))
    => /\ response.http = 500
       /\ LogClassification(response.api, response.error)
             # LogClassification(response.api, UnclassifiedLogError)

\* C19: after a successful updateDelivery whose body carries a drivers list,
\* the live ratings of the delivery are exactly the ratings that were live
\* before and whose id is a ratingId of the list, each with the score
\* submitted for it, plus one new rating per entry without ratingId; every
\* rating that was live before and is absent from the list is deleted.
UpdateAnswered(p) ==
    /\ pc[p] = "ud_apply"
    /\ response'.proc = p
    /\ response'.ok
    /\ response'.body.hasDrivers
StatsWritten(p) ==
    /\ pc[p] = "ld_stats"
    /\ Steps(p)
    /\ drivers' # drivers
C20_StoredOverallIsRoundedMean ==
    [][\A p \in Procs :
          StatsWritten(p)
          => LET d == Head(ctx[p].driverUpdates).id
                 S == LiveRatingsOfDriver(d)
                 n == Cardinality(S)
                 v == drivers'[d].overallRating
             IN IF n = 0 THEN v = 0
                ELSE /\ 2 * n * v <= 20 * SumOverall(S) + n
                     /\ 20 * SumOverall(S) + n < 2 * n * v + 2 * n
                     /\ v # 0]_vars

\* ---------------------------------------------------------------- dashboard
\* JavaScript values of the KPI path: a finite number (kept in thousandths,
\* a quotient rounded to the nearest thousandth), NaN, +-Infinity, or null
Num(v) == [k |-> "num", v |-> v]
NaN == [k |-> "NaN", v |-> 0]
Null == [k |-> "null", v |-> 0]

\* a || b
Truthy(x) == x.k \in {"Infinity", "-Infinity"} \/ (x.k = "num" /\ x.v # 0)
OrElse(x, d) == IF Truthy(x) THEN x ELSE d

RoundDiv(n, d) ==
    IF n >= 0 THEN (2 * n + d) \div (2 * d)
    ELSE 0 - ((2 * (0 - n) + d) \div (2 * d))

\* (a / b) * 100 for finite numbers a and b >= 0: x / 0 is +-Infinity and
\* 0 / 0 is NaN
JsPercent(a, b) ==
    IF b.v = 0
    THEN IF a.v = 0 THEN NaN
         ELSE [k |-> IF a.v < 0 THEN "-Infinity" ELSE "Infinity", v |-> 0]
    ELSE Num(RoundDiv(a.v * 1000, b.v) * 100)

\* parseFloat(x.toFixed(1)): one decimal for a finite number; 'NaN' and
\* 'Infinity' parse back to NaN and Infinity;
\* parseFloat(x?.toFixed(1) || 0) is 0 for a missing x
ToFixed1(x) ==
    IF x.k = "null" THEN Num(0)
    ELSE IF x.k = "num" THEN Num(100 * RoundDiv(x.v, 100))
    ELSE x

\* rows of deliveries joined to their request and their ratings
DeliverySamples ==
    { [id |-> 1, onTime |-> TRUE, estimatedCost |-> 0, invoiceAmount |-> 200,
       ratings |-> {[driverId |-> 1, overallRating |-> 5]}],
      [id |-> 2, onTime |-> FALSE, estimatedCost |-> 100, invoiceAmount |-> 150,
       ratings |-> {[driverId |-> 2, overallRating |-> 4]}] }

\* l.111-247: each metric, its query failing (catch) or answering
\* SQL: COUNT(on time) * 100.0 / COUNT(*), NULL on division by zero
CalculateOnTimeDeliveryRate(rows, dbOk) ==
    LET total == Cardinality(rows)
        onTime == Cardinality({d \in rows : d.onTime})
        rate == IF total = 0 THEN Null
                ELSE Num(RoundDiv(onTime * 100 * 1000, total))
    IN IF dbOk THEN OrElse(rate, Num(0)) ELSE Num(0)
\* SQL: AVG((invoice - estimate) / estimate * 100) over the costed rows
CalculateCostVariance(rows, dbOk) ==
    LET costed == {d \in rows : d.estimatedCost > 0 /\ d.invoiceAmount > 0}
        pct == [d \in costed |->
                  RoundDiv((d.invoiceAmount - d.estimatedCost) * 100 * 1000,
                           d.estimatedCost)]
        avg == IF costed = {} THEN Null
               ELSE Num(RoundDiv(TotalOver(pct), Cardinality(costed)))
    IN IF dbOk THEN OrElse(avg, Num(0)) ELSE Num(0)
\* SQL: COUNT(DISTINCT dr.driver_id) over Driver.count(), each `|| 0`, `|| 1`
CalculateFleetUtilization(rows, count, dbOk) ==
    LET active ==
            Num(1000 * Cardinality(UNION {{x.driverId : x \in d.ratings}
                                          : d \in rows}))
    IN IF dbOk
       THEN JsPercent(OrElse(active, Num(0)),
                      OrElse(Num(1000 * count), Num(1000)))
       ELSE Num(0)
\* SQL: AVG(dr.overall_rating)
CalculateDriverPerformance(rows, dbOk) ==
    LET rs == UNION {{[delivery |-> d.id, driverId |-> x.driverId,
                       overallRating |-> x.overallRating] : x \in d.ratings}
                     : d \in rows}
        score == [x \in rs |-> x.overallRating * 1000]
        avg == IF rs = {} THEN Null
               ELSE Num(RoundDiv(TotalOver(score), Cardinality(rs)))
    IN IF dbOk THEN OrElse(avg, Num(0)) ELSE Num(0)

PeriodData(rows, count, dbOk) ==
    [onTimeDelivery |-> CalculateOnTimeDeliveryRate(rows, dbOk),
     costVariance |-> CalculateCostVariance(rows, dbOk),
     fleetUtilization |-> CalculateFleetUtilization(rows, count, dbOk),
     driverPerformance |-> CalculateDriverPerformance(rows, dbOk)]

\* variant: the change is computed whatever the baseline
PercentageChangeUnguarded(current, previous) ==
    ToFixed1(JsPercent(Num(current.v - previous.v),
                       Num(IF previous.v < 0 THEN 0 - previous.v
                           ELSE previous.v)))
\* l.323-326
CalculatePercentageChange(current, previous) ==
    IF ~Truthy(previous) THEN Num(0)
    ELSE ToFixed1(JsPercent(Num(current.v - previous.v),
                            Num(IF previous.v < 0 THEN 0 - previous.v
                                ELSE previous.v)))
Metrics ==
    {"onTimeDelivery", "costVariance", "fleetUtilization", "driverPerformance"}
\* l.299-318
CalculateTrends(currentData, previousData) ==
    [m \in Metrics |-> CalculatePercentageChange(currentData[m],
                                                 previousData[m])]

\* l.10-106: the four KPI values and their trends
CalculateKPIMetrics(cur, prev, count, dbOk) ==
    LET currentData == PeriodData(cur, count, dbOk)
        previousData == PeriodData(prev, count, dbOk)
    IN [value |-> [m \in Metrics |-> ToFixed1(currentData[m])],
        trend |-> CalculateTrends(currentData, previousData)]

KPI_Begin(p, cur, prev, count, dbOk) ==
    /\ pc[p] = "idle"
    /\ pc' = [pc EXCEPT ![p] = "kpi"]
    /\ ctx' = [ctx EXCEPT ![p] = [op |-> "calculateKPIMetrics", req |-> 0,
                                  current |-> cur, previous |-> prev,
                                  totalDrivers |-> count, dbOk |-> dbOk]]
    /\ response' = NoResponse
    /\ UNCHANGED <<db, reqLock, drvLock>>
KPI_Answer(p) ==
    /\ pc[p] = "kpi"
    /\ FinishWith(p, "dashboard", TRUE, 200, <<>>,
                  CalculateKPIMetrics(ctx[p].current, ctx[p].previous,
                                      ctx[p].totalDrivers, ctx[p].dbOk))
    /\ UNCHANGED <<db, reqLock, drvLock>>

\* ------------------------------------------------------- insight annotator
\* the insights collected by generateAIInsights: what the annotator reads of
\* each is its severity and the words 'cost' and 'driver' of its description
InsightSamples ==
    { [id |-> "cost-anomaly", severity |-> "high", cost |-> TRUE,
       driver |-> FALSE],
      [id |-> "driver-pattern", severity |-> "low", cost |-> FALSE,
       driver |-> TRUE],
      [id |-> "route-efficiency", severity |-> "medium", cost |-> FALSE,
       driver |-> FALSE] }
MaxInsights == 3
InsightLists ==
    {s \in UNION {[1 .. n -> InsightSamples] : n \in 0 .. MaxInsights} :
        \A i, j \in DOMAIN s : i # j => s[i] # s[j]}

\* what the call of the annotator does: no client (no API key), the call
\* throws, the text is empty, the text is not JSON, the JSON is not a list,
\* or the JSON is a list of insights
AnnotatorOutcomes ==
    {"notConfigured", "throws", "empty", "notJson", "notIterable", "list"}

\* l.227-265
GenerateFallbackAIInsights(insights) ==
    LET high == {i \in DOMAIN insights : insights[i].severity = "high"}
        cost == {i \in DOMAIN insights : insights[i].cost}
        driver == {i \in DOMAIN insights : insights[i].driver}
        p1 == IF Cardinality(high) > 2
              THEN <<[id |-> "ai-pattern-1", severity |-> "high",
                      cost |-> FALSE, driver |-> FALSE]>>
              ELSE <<>>
        p2 == IF Cardinality(cost) > 0
              THEN <<[id |-> "ai-pattern-2", severity |-> "medium",
                      cost |-> TRUE, driver |-> FALSE]>>
              ELSE <<>>
        p3 == IF Cardinality(driver) > 1
              THEN <<[id |-> "ai-pattern-3", severity |-> "medium",
                      cost |-> FALSE, driver |-> TRUE]>>
              ELSE <<>>
    IN p1 \o p2 \o p3

\* l.19-62: the value generateEnhancedAIInsights returns
GenerateEnhancedAIInsights(insights, outcome) ==
    LET \* insights.slice(0, 2)
        kept == SubSeq(insights, 1,
                       IF Len(insights) < 2 THEN Len(insights) ELSE 2)
        annotated == <<[id |-> "ai-insight-1", severity |-> "medium",
                        cost |-> FALSE, driver |-> FALSE]>>
    IN CASE outcome = "notConfigured" -> insights
         [] outcome = "throws" -> insights
         [] outcome = "empty" -> insights
         [] outcome = "notJson" ->
               kept \o GenerateFallbackAIInsights(insights)
         [] outcome = "notIterable" -> insights
         [] outcome = "list" -> kept \o annotated

AI_Begin(p, insights, outcome) ==
    /\ pc[p] = "idle"
    /\ pc' = [pc EXCEPT ![p] = "ai"]
    /\ ctx' = [ctx EXCEPT ![p] = [op |-> "generateEnhancedAIInsights",
                                  req |-> 0, insights |-> insights,
                                  outcome |-> outcome]]
    /\ response' = NoResponse
    /\ UNCHANGED <<db, reqLock, drvLock>>
AI_Answer(p) ==
    /\ pc[p] = "ai"
    /\ FinishWith(p, "dashboard", TRUE, 200, <<>>,
                  GenerateEnhancedAIInsights(ctx[p].insights, ctx[p].outcome))
    /\ UNCHANGED <<db, reqLock, drvLock>>

\* ---------------------------------------------------------- rating summary
\* a nullable score column that holds NULL
NullScore == 0 - 1
RatingFields ==
    {"overallRating", "punctuality", "professionalism", "deliveryQuality",
     "communication", "safety"}
RatingSamples ==
    { [overallRating |-> 5, punctuality |-> 4, professionalism |-> 5,
       deliveryQuality |-> NullScore, communication |-> 3,
       safety |-> NullScore],
      [overallRating |-> 2, punctuality |-> 1, professionalism |-> 3,
       deliveryQuality |-> 4, communication |-> NullScore, safety |-> 5],
      [overallRating |-> 4, punctuality |-> 4, professionalism |-> 2,
       deliveryQuality |-> 1, communication |-> 5, safety |-> NullScore] }
MaxSummarised == 3

\* rating.x || 0
OrZero(x) == IF x = NullScore \/ x = 0 THEN 0 ELSE x
\* variant: the callback overwrites the accumulator
KeepRating(acc, rating) == [f \in RatingFields |-> OrZero(rating[f])]
\* l.562-569: the reduce callback
AddRating(acc, rating) == [f \in RatingFields |-> acc[f] + OrZero(rating[f])]
\* ratings.reduce(callback, zeros), left to right
Totals(list) ==
    LET RECURSIVE Reduce(_, _)
        Reduce(acc, i) == IF i > Len(list) THEN acc
                          ELSE Reduce(AddRating(acc, list[i]), i + 1)
    IN Reduce([f \in RatingFields |-> 0], 1)
\* l.548-589, averages kept in tenths
CalculateRatingSummary(list) ==
    IF Len(list) = 0
    THEN [average |-> [f \in RatingFields |-> 0], totalRatings |-> 0]
    ELSE [average |-> [f \in RatingFields |->
                          RoundDiv(Totals(list)[f] * 10, Len(list))],
          totalRatings |-> Len(list)]

RS_Begin(p, list) ==
    /\ pc[p] = "idle"
    /\ pc' = [pc EXCEPT ![p] = "summary"]
    /\ ctx' = [ctx EXCEPT ![p] = [op |-> "calculateRatingSummary",
                                  req |-> 0, ratings |-> list]]
    /\ response' = NoResponse
    /\ UNCHANGED <<db, reqLock, drvLock>>
RS_Answer(p) ==
    /\ pc[p] = "summary"
    /\ FinishWith(p, "drivers", TRUE, 200, <<>>,
                  CalculateRatingSummary(ctx[p].ratings))
    /\ UNCHANGED <<db, reqLock, drvLock>>

\* ------------------------------------------------- the computed responses
\* the three computations, each called with inputs of its bounded sets
ReportNext ==
    \/ \E p \in Procs, cur \in SUBSET DeliverySamples,
          prev \in SUBSET DeliverySamples, count \in 0 .. 2,
          dbOk \in BOOLEAN : KPI_Begin(p, cur, prev, count, dbOk)
    \/ \E p \in Procs : KPI_Answer(p)
    \/ \E p \in Procs, insights \in InsightLists,
          outcome \in AnnotatorOutcomes : AI_Begin(p, insights, outcome)
    \/ \E p \in Procs : AI_Answer(p)
    \/ \E p \in Procs :
          \E list \in UNION {[1 .. n -> RatingSamples]
                             : n \in 0 .. MaxSummarised} : RS_Begin(p, list)
    \/ \E p \in Procs : RS_Answer(p)
ReportSpec == Init /\ [][ReportNext]_vars

\* C21: for a date range without matching deliveries every KPI value is 0
\* and every trend is a finite number, which is 0 when the baseline of the
\* previous period is zero or absent; nothing is NaN or Infinity.
KpiAnswered(p) == pc[p] = "kpi" /\ pc'[p] = "idle"
AnnotatorUnusable ==
    {"notConfigured", "throws", "empty", "notJson", "notIterable"}
C22_FallbackIsIdentity ==
    [][\A p \in Procs :
          (pc[p] = "ai" /\ pc'[p] = "idle"
           /\ ctx[p].outcome \in AnnotatorUnusable)
          => response'.body = ctx[p].insights]_vars

\* C23: calculateRatingSummary returns the same summary for every
\* permutation of the list of ratings it is given.
Reorderings(s) ==
    {[i \in DOMAIN s |-> s[f[i]]] :
        f \in {g \in [DOMAIN s -> DOMAIN s] :
                  \A i, j \in DOMAIN s : i # j => g[i] # g[j]}}
C23_SummaryOrderInvariant ==
    [][\A p \in Procs :
          (pc[p] = "summary" /\ pc'[p] = "idle")
          => \A q \in Reorderings(ctx[p].ratings) :
                CalculateRatingSummary(q) = response'.body]_vars
C23_Witness ==
    /\ response.op = "calculateRatingSummary"
    /\ response.body.totalRatings = 3
    /\ response.body.average["overallRating"] = 37
    /\ response.body.average["safety"] = 17

\* ------------------------------------------------------------ createRequest
MaxRequests == 3
\* new Date().getFullYear()
ClockYears == {2025, 2026}
\* Math.floor(Math.random() * 1000), some of its 1000 values
RandomDraws == {0, 7, 999}
\* l.13: `REQ-${year}-${String(n).padStart(3, '0')}`, n as three digits
RequestNumber(year, n) ==
    <<"REQ", year, <<n \div 100, (n \div 10) % 10, n % 10>>>>

\* request.controller.js: the message of the 500 over a unique violation
MsgCreateFailed ==
    <<"Failed", "to", "create", "request:", "Validation", "error">>
\* the table starts empty
CreateInit ==
    /\ requests = [r \in {} |-> 0]
    /\ deliveries = {}
    /\ ratings = {}
    /\ drivers = [d \in {} |-> 0]
    /\ reqLock = [r \in {} |-> NoProc]
    /\ drvLock = [d \in DriverIds |-> NoProc]
    /\ pc = [p \in Procs |-> "idle"]
    /\ ctx = [p \in Procs |-> IdleCtx]
    /\ response = NoResponse

\* l.13: the number is generated before the INSERT is sent
CR_Generate(p, year, n) ==
    /\ pc[p] = "idle"
    /\ Cardinality(DOMAIN requests)
         + Cardinality({q \in Procs : pc[q] = "cr_create"}) < MaxRequests
    \* the clock does not run backwards
    /\ \A r \in DOMAIN requests : year >= requests[r].requestNumber[2]
    /\ \A q \in Procs : pc[q] = "cr_create" => year >= ctx[q].number[2]
    /\ pc' = [pc EXCEPT ![p] = "cr_create"]
    /\ ctx' = [ctx EXCEPT ![p] = [op |-> "createRequest", req |-> 0,
                                  number |-> RequestNumber(year, n)]]
    /\ response' = NoResponse
    /\ UNCHANGED <<db, reqLock, drvLock>>
\* l.14-21: TransportationRequest.create under the unique index on
\* request_number (soft-deleted rows keep their number)
CR_Create(p) ==
    /\ pc[p] = "cr_create"
    /\ IF \E r \in DOMAIN requests :
             requests[r].requestNumber = ctx[p].number
       THEN /\ UNCHANGED <<db, reqLock, drvLock>>
            /\ Finish(p, "requests", FALSE, 500,
                      MsgCreateFailed)
       ELSE LET id == Cardinality(DOMAIN requests) + 1
            IN /\ requests' = requests @@
                     (id :> [status |-> "planned", deleted |-> FALSE,
                             requestNumber |-> ctx[p].number])
               /\ reqLock' = reqLock @@ (id :> NoProc)
               /\ UNCHANGED <<deliveries, ratings, drivers, drvLock>>
               /\ Finish(p, "requests", TRUE, 201, <<>>)

CreateNext ==
    \/ \E p \in Procs, year \in ClockYears, n \in RandomDraws :
          CR_Generate(p, year, n)
    \/ \E p \in Procs : CR_Create(p)
CreateSpec == CreateInit /\ [][CreateNext]_vars

\* C24: the number createRequest generates for a new request has the form
\* REQ-<year>-<3 digits> and never equals the number of an existing request.
C24_GeneratedNumberIsFresh ==
    [][\A p \in Procs :
          (pc[p] = "idle" /\ pc'[p] = "cr_create")
          => /\ ctx'[p].number[1] = "REQ"
             /\ Len(ctx'[p].number[3]) = 3
             /\ \A r \in DOMAIN requests :
                   requests[r].requestNumber # ctx'[p].number]_vars

\* C25: for one request the transactional sections of logDelivery and
\* confirmCompletion exclude each other: a call inside its section holds the
\* row lock of the request, and what it read under the lock (the live row,
\* its status, the live delivery a re-log replaces) is still what the tables
\* hold, so its commit acts on the state a serial execution would give it.
InRequestSection(p) == pc[p] \in {"ld_delivery", "ld_driver", "cc_commit"}
C25_RequestSectionsExclusive ==
    /\ \A p \in Procs :
          InRequestSection(p)
          => /\ reqLock[ctx[p].req] = p
             /\ LiveRequest(ctx[p].req)
             /\ StatusOf(ctx[p].req) = ctx[p].readStatus
             /\ (pc[p] = "ld_driver"
                 => {d.id : d \in LiveDeliveriesOf(ctx[p].req)}
                      = ctx[p].destroyedDeliveries)
    /\ \A p, q \in Procs :
          (p # q /\ InRequestSection(p) /\ InRequestSection(q))
          => ctx[p].req # ctx[q].req
C25_Witness ==
    \E p, q \in Procs :
        /\ pc[p] = "cc_commit"
        /\ pc[q] = "ld_lock"
        /\ ctx[q].req = ctx[p].req
        /\ ctx[q].retryCount > 0

\* ------------------------------------------------ re-log against an edit
\* logDelivery and updateDelivery on one request, with room for the rating
\* rows of a log, a re-log and an edit
RelogNext ==
    \E p \in Procs :
        \/ \E r \in Requests : LD_BeginWithin(p, r, RelogRatings)
        \/ LD_Lock(p)
        \/ LD_LockTimeout(p)
        \/ \E inv \in Invoices : LD_Delivery(p, inv)
        \/ \E a \in Assignments : LD_DriverWithin(p, a, RelogRatings)
        \/ LD_Commit(p)
        \/ LD_Stats(p)
        \/ \E r \in Requests : UD_Begin(p, r)
        \/ UD_Find(p)
        \/ \E hasDrivers \in BOOLEAN, list \in UpdateLists :
              UD_ApplyWithin(p, NoInvoice, hasDrivers, list, RelogRatings)
RelogSpec == Init /\ [][RelogNext]_vars

\* C26: every live DriverRating references a live Delivery: no operation
\* leaves or creates a live rating whose delivery has been destroyed.
C26_LiveRatingHasLiveDelivery ==
    \A x \in ratings :
        ~x.deleted
        => \E d \in deliveries : d.id = x.deliveryId /\ ~d.deleted

\* C27: a deleteDriver that runs beside a logDelivery assigning the same
\* driver never leaves a deleted driver that a live rating references: the
\* deletion does not go through for a driver with a live rating, and a
\* logDelivery does not commit a rating for a deleted driver.
C27_NoDeletedDriverWithLiveRating ==
    [][\A p \in Procs :
          /\ (pc[p] = "dd_write" /\ Steps(p)
              /\ drivers'[ctx[p].driver].deleted)
             => LiveRatingsOfDriver(ctx[p].driver) = {}
          /\ (pc[p] = "ld_driver" /\ pc'[p] = "ld_stats")
             => \A x \in ctx[p].newRatings :
                   ~drivers'[x.driverId].deleted]_vars

\* ------------------------------------------------------------ two requests
\* two planned requests and one driver
PairInit ==
    /\ requests = [r \in {1, 2} |-> [status |-> "planned", deleted |-> FALSE]]
    /\ deliveries = {}
    /\ ratings = {}
    /\ drivers = (1 :> [totalDeliveries |-> 0, overallRating |-> 0,
                        deleted |-> FALSE])
    /\ reqLock = [r \in {1, 2} |-> NoProc]
    /\ drvLock = [d \in DriverIds |-> NoProc]
    /\ pc = [p \in Procs |-> "idle"]
    /\ ctx = [p \in Procs |-> IdleCtx]
    /\ response = NoResponse

\* l.140-155 while another transaction holds the driver row
LD_DriverTimeout(p, a) ==
    /\ pc[p] = "ld_driver"
    /\ Cardinality(ctx[p].newRatings) < MaxAssign
    /\ a.driver_id # NewDriver
    /\ DriverLockedByOther(p, a.driver_id)
    /\ LockErrorInLog(p, MsgLockWaitTimeout)

PairNext ==
    \E p \in Procs :
        \/ \E r \in Requests : LD_Begin(p, r)
        \/ LD_Lock(p)
        \/ LD_LockTimeout(p)
        \/ \E inv \in Invoices : LD_Delivery(p, inv)
        \/ \E a \in Assignments : LD_Driver(p, a)
        \/ \E a \in Assignments : LD_DriverTimeout(p, a)
        \/ LD_Commit(p)
        \/ LD_Stats(p)
        \/ \E r \in Requests : CC_Begin(p, r)
        \/ CC_Lock(p)
        \/ CC_LockTimeout(p)
        \/ CC_Commit(p)
PairSpec == PairInit /\ [][PairNext]_vars

\* both requests have been logged with driver 1; their deliveries are edited
EditPairInit ==
    /\ requests = [r \in {1, 2} |-> [status |-> "processing",
                                     deleted |-> FALSE]]
    /\ deliveries = {[id |-> r, requestId |-> r, invoiceAmount |-> 100,
                      deleted |-> FALSE] : r \in {1, 2}}
    /\ ratings = {[id |-> r, deliveryId |-> r, driverId |-> 1,
                   overallRating |-> 4, deleted |-> FALSE] : r \in {1, 2}}
    /\ drivers = (1 :> [totalDeliveries |-> 2, overallRating |-> 40,
                        deleted |-> FALSE])
    /\ reqLock = [r \in {1, 2} |-> NoProc]
    /\ drvLock = [d \in DriverIds |-> NoProc]
    /\ pc = [p \in Procs |-> "idle"]
    /\ ctx = [p \in Procs |-> IdleCtx]
    /\ response = NoResponse
EditPairNext ==
    \E p \in Procs :
        \/ \E r \in Requests : UD_Begin(p, r)
        \/ UD_Find(p)
        \/ \E inv \in {NoInvoice} \cup Invoices, hasDrivers \in BOOLEAN,
              list \in EditLists :
              UD_Apply(p, inv, hasDrivers, list)
EditPairSpec == EditPairInit /\ [][EditPairNext]_vars

\* C28: once every logDelivery and its statistics refresh has finished, each
\* driver's totalDeliveries (0 at the start) is the number of distinct
\* requests for which the driver holds a live rating: a re-log is not
\* counted twice and no increment is lost.
RatedRequests(id) ==
    {d.requestId : d \in {e \in deliveries :
                             \E x \in LiveRatingsOfDriver(id) :
                                x.deliveryId = e.id}}
C28_TotalDeliveriesCountsRequests ==
    (\A p \in Procs : pc[p] = "idle")
    => \A id \in DOMAIN drivers :
          drivers[id].totalDeliveries = Cardinality(RatedRequests(id))

\* C29: an updateDelivery for a request changes no rating of another
\* request's delivery, whatever ratingId its entries name.
C29_UpdateDeliveryKeepsOtherRatings ==
    [][\A p \in Procs :
          (pc[p] = "ud_apply" /\ Steps(p))
          => \A x \in ratings :
                x.deliveryId # ctx[p].delivery => x \in ratings']_vars

\* C30: logDelivery and confirmCompletion calls on two different requests
\* never wait for a lock the other holds: no such call runs into a lock wait
\* while the lock it waits for is held by a call on another request.
LockWaitEnds(p) ==
    /\ pc[p] \in {"ld_lock", "ld_driver", "cc_lock"}
    /\ \/ pc'[p] = "ld_lock" /\ ctx'[p].retryCount > ctx[p].retryCount
       \/ pc'[p] = "idle" /\ IsLockError(response'.error)
HoldsForOtherRequest(q, p) ==
    /\ q # p
    /\ ctx[q].req # ctx[p].req
    /\ \/ \E r \in Requests : reqLock[r] = q
       \/ \E d \in DriverIds : drvLock[d] = q
C30_NoWaitAcrossRequests ==
    [][\A p \in Procs :
          LockWaitEnds(p)
          => ~\E q \in Procs : HoldsForOtherRequest(q, p)]_vars

====
